---- MODULE Spec2Model ----
(***************************************************************************)
(* Model of src/utils.py: the course-popularity pipeline                   *)
(*   load_student_preferences -> analyze_course_popularity                 *)
(*   -> plot_course_popularity / save_popularity_data.                     *)
(*                                                                         *)
(* Representation.                                                         *)
(*  - A Python str that the code inspects character by character (column   *)
(*    names, str(course_id)) is a sequence of one-character strings.       *)
(*  - None is the record None; a DataFrame is a record with type           *)
(*    "DataFrame".  A preference frame has columns (names) and data (rows, *)
(*    each a sequence of cells aligned with columns).  A cell is <<>>      *)
(*    (missing, NaN) or <<v>> for the number v.                            *)
(*  - The popularity frame has columns, index (the dict keys) and data     *)
(*    (one record per row).                                                *)
(*  - avg_pref, a quotient, is kept as the exact fraction in lowest terms. *)
(*  - DataFrame.sort_values is called with the default kind ("quicksort"), *)
(*    which is not a stable sort: the order of rows with equal keys is     *)
(*    whatever the build's sort produces.  sort_tie is that order.         *)
(***************************************************************************)
EXTENDS Integers, Sequences, FiniteSets, TLC

VARIABLES xlsx, courses_df, preferences_df, popularity_df, sort_tie,
          args, raised, returned, figure, fs, pc

vars == <<xlsx, courses_df, preferences_df, popularity_df, sort_tie,
          args, raised, returned, figure, fs, pc>>

(***************************************************************************)
(* Bounds of the input domains.                                            *)
(***************************************************************************)
MaxRows == 2
MaxTopN == 2

(***************************************************************************)
(* Python values.                                                          *)
(***************************************************************************)
None == [type |-> "NoneType"]

NaN == <<>>

PyStr(chars) == [type |-> "str", chars |-> chars]

PyInt(n) == [type |-> "int", value |-> n]

DigitChars == <<"0", "1", "2", "3", "4", "5", "6", "7", "8", "9">>

\* str(n) for a non-negative integer
RECURSIVE str(_)
str(n) ==
    IF n < 10 THEN <<DigitChars[n + 1]>>
    ELSE str(n \div 10) \o <<DigitChars[(n % 10) + 1]>>

IsDigit(ch) == \E d \in 1..10 : DigitChars[d] = ch

DigitValue(ch) == (CHOOSE d \in 1..10 : DigitChars[d] = ch) - 1

\* int(s) / float(s) of a string: ValueError unless it is a decimal numeral
RECURSIVE ParseDigits(_, _)
ParseDigits(s, acc) ==
    IF s = <<>> THEN acc
    ELSE ParseDigits(Tail(s), 10 * acc + DigitValue(Head(s)))

int(s) ==
    IF s # <<>> /\ \A i \in 1..Len(s) : IsDigit(s[i])
    THEN [raised |-> "none", value |-> ParseDigits(s, 0)]
    ELSE [raised |-> "ValueError", value |-> 0]

float(s) == int(s)

startswith(s, prefix) ==
    /\ Len(s) >= Len(prefix)
    /\ SubSeq(s, 1, Len(prefix)) = prefix

RECURSIVE GCD(_, _)
GCD(a, b) == IF b = 0 THEN a ELSE GCD(b, a % b)

\* a / b, b > 0
Quotient(a, b) == [num |-> a \div GCD(a, b), den |-> b \div GCD(a, b)]

(***************************************************************************)
(* DataFrames.                                                             *)
(***************************************************************************)
DataFrame(columns, data) ==
    [type |-> "DataFrame", columns |-> columns, data |-> data]

PopularityColumns ==
    <<"course_id", "name", "pref_1", "pref_2", "pref_3", "pref_4",
      "total_mentions", "weighted_score", "avg_pref">>

PopularityFrame(index, data) ==
    [type |-> "DataFrame", columns |-> PopularityColumns,
     index |-> index, data |-> data]

\* DataFrame.empty: some axis has length 0
empty(df) == Len(df.columns) = 0 \/ Len(df.data) = 0

ColumnIndex(df, col) == CHOOSE j \in 1..Len(df.columns) : df.columns[j] = col

\* df[col] as the sequence of its cells
Column(df, col) == [i \in 1..Len(df.data) |-> df.data[i][ColumnIndex(df, col)]]

\* (series == x).sum()
CountEqual(series, x) == Cardinality({i \in 1..Len(series) : series[i] = <<x>>})

Orders(n) == {p \in [1..n -> 1..n] : \A i, j \in 1..n : p[i] = p[j] => i = j}

TiePriority(tie, i) == IF i \in DOMAIN tie THEN tie[i] ELSE i

\* the key of a row under column by, as a fraction num/den
KeyNum(row, by) == IF by = "avg_pref" THEN row.avg_pref.num ELSE row[by]

KeyDen(row, by) == IF by = "avg_pref" THEN row.avg_pref.den ELSE 1

KeyLess(a, b, by) == KeyNum(a, by) * KeyDen(b, by) < KeyNum(b, by) * KeyDen(a, by)

\* the order sort_values(by, ascending) puts the rows in: by key, rows with
\* equal keys in the order tie gives them
SortOrder(data, by, ascending, tie) ==
    LET n == Len(data)
        Before(a, b) ==
            \/ IF ascending THEN KeyLess(data[a], data[b], by)
                            ELSE KeyLess(data[b], data[a], by)
            \/ /\ ~KeyLess(data[a], data[b], by)
               /\ ~KeyLess(data[b], data[a], by)
               /\ TiePriority(tie, a) < TiePriority(tie, b)
    IN CHOOSE p \in Orders(n) :
           \A i, j \in 1..n : i < j => Before(p[i], p[j])

sort_values_asc(df, by, ascending, tie) ==
    LET p == SortOrder(df.data, by, TRUE, tie)
    IN [df EXCEPT !.index = [i \in 1..Len(df.data) |-> df.index[p[i]]],
                  !.data = [i \in 1..Len(df.data) |-> df.data[p[i]]]]

sort_values(df, by, ascending, tie) ==
    LET p == SortOrder(df.data, by, ascending, tie)
    IN [df EXCEPT !.index = [i \in 1..Len(df.data) |-> df.index[p[i]]],
                  !.data = [i \in 1..Len(df.data) |-> df.data[p[i]]]]

(***************************************************************************)
(* load_student_preferences                                                *)
(***************************************************************************)
Unreadable == [type |-> "Unreadable"]

load_student_preferences(file) ==
    IF file = Unreadable THEN None ELSE file

(***************************************************************************)
(* analyze_course_popularity                                               *)
(***************************************************************************)
kurz == <<"k", "u", "r", "z">>

pref_columns_any(preferences_df_) ==
    preferences_df_.columns

pref_columns(preferences_df_) ==
    SelectSeq(preferences_df_.columns, LAMBDA col : startswith(col, kurz))

ZeroCounts == [r \in 1..4 |-> 0]

RECURSIVE pref_counts_fifth(_, _, _, _)
pref_counts_fifth(preferences_df_, cols, course_id, counts) ==
    IF cols = <<>> THEN counts
    ELSE LET col == Head(cols)
             pref_rank == IF Len(col) >= 5 THEN int(<<col[5]>>)
                          ELSE [raised |-> "ValueError", value |-> 0]
             id == float(course_id)
             counted ==
                 IF pref_rank.raised = "none" /\ pref_rank.value \in DOMAIN counts
                    /\ id.raised = "none"
                 THEN [counts EXCEPT ![pref_rank.value] =
                           @ + CountEqual(Column(preferences_df_, col), id.value)]
                 ELSE counts
         IN pref_counts_fifth(preferences_df_, Tail(cols), course_id, counted)

\* the loop over pref_columns for one course_id (a string)
RECURSIVE pref_counts(_, _, _, _)
pref_counts(preferences_df_, cols, course_id, counts) ==
    IF cols = <<>> THEN counts
    ELSE LET col == Head(cols)
             pref_rank == int(<<col[Len(col)]>>)
             id == float(course_id)
             counted ==
                 IF pref_rank.raised = "none" /\ pref_rank.value \in DOMAIN counts
                    /\ id.raised = "none"
                 THEN [counts EXCEPT ![pref_rank.value] =
                           @ + CountEqual(Column(preferences_df_, col), id.value)]
                 ELSE counts
         IN pref_counts(preferences_df_, Tail(cols), course_id, counted)

weighted_score_flat(counts) ==
    4 * counts[1] + 3 * counts[2] + 2 * counts[3] + 2 * counts[4]

weighted_score(counts) ==
    4 * counts[1] + 3 * counts[2] + 2 * counts[3] + 1 * counts[4]

total_mentions(counts) == counts[1] + counts[2] + counts[3] + counts[4]

included_always(counts) == total_mentions(counts) >= 0

included(counts) == total_mentions(counts) > 0

\* courses_df[courses_df['CourseID'] == id]['name'].iloc[0]
course_name(courses_df_, id) ==
    LET i == CHOOSE k \in 1..Len(courses_df_.data) :
                 /\ courses_df_.data[k].CourseID = id
                 /\ \A m \in 1..(k - 1) : courses_df_.data[m].CourseID # id
    IN courses_df_.data[i].name

record(courses_df_, course_id, counts) ==
    [course_id |-> int(course_id).value,
     name |-> course_name(courses_df_, int(course_id).value),
     pref_1 |-> counts[1],
     pref_2 |-> counts[2],
     pref_3 |-> counts[3],
     pref_4 |-> counts[4],
     total_mentions |-> total_mentions(counts),
     weighted_score |-> weighted_score(counts),
     avg_pref |-> IF total_mentions(counts) > 0
                  THEN Quotient(weighted_score(counts), total_mentions(counts))
                  ELSE Quotient(0, 1)]

\* course_popularity[key] = value on an insertion-ordered dict
DictSet(dict, key, value) ==
    IF \E i \in 1..Len(dict) : dict[i].key = key
    THEN [i \in 1..Len(dict) |->
             IF dict[i].key = key THEN [key |-> key, value |-> value] ELSE dict[i]]
    ELSE Append(dict, [key |-> key, value |-> value])

\* the loop over courses_df['CourseID'].astype(str)
RECURSIVE course_popularity(_, _, _, _)
course_popularity(preferences_df_, courses_df_, k, dict) ==
    IF k > Len(courses_df_.data) THEN dict
    ELSE LET course_id == str(courses_df_.data[k].CourseID)
             counts == pref_counts(preferences_df_, pref_columns(preferences_df_),
                                   course_id, ZeroCounts)
         IN course_popularity(preferences_df_, courses_df_, k + 1,
                IF included(counts)
                THEN DictSet(dict, course_id, record(courses_df_, course_id, counts))
                ELSE dict)

\* pd.DataFrame.from_dict(course_popularity, orient='index')
from_dict(dict) ==
    PopularityFrame([i \in 1..Len(dict) |-> dict[i].key],
                    [i \in 1..Len(dict) |-> dict[i].value])

EmptyPopularity == PopularityFrame(<<>>, <<>>)

analyze_course_popularity(preferences_df_, courses_df_, tie) ==
    IF preferences_df_ = None
    THEN [raised |-> "AttributeError", value |-> None]
    ELSE LET dict == course_popularity(preferences_df_, courses_df_, 1, <<>>)
         IN IF dict # <<>>
            THEN [raised |-> "none",
                  value |-> sort_values(from_dict(dict), "weighted_score", FALSE, tie)]
            ELSE [raised |-> "none", value |-> EmptyPopularity]

(***************************************************************************)
(* Input domains.                                                          *)
(***************************************************************************)
kurz1 == kurz \o <<"1">>
kurz2 == kurz \o <<"2">>
kurz3 == kurz \o <<"3">>
kurz4 == kurz \o <<"4">>
kurz21 == kurz \o <<"2", "1">>
kurz5 == kurz \o <<"5">>
kurz1A == kurz \o <<"1", "A">>
kurz2A == kurz \o <<"2", "A">>
note1 == <<"n", "o", "t", "e", "1">>

Headers ==
    { <<>>, <<kurz1>>, <<kurz1, kurz2>>, <<kurz3, kurz4>>, <<kurz1, kurz21>>,
      <<kurz2, kurz3>>, <<kurz1A, kurz2A>>, <<note1, kurz1>>, <<kurz5, kurz2>>,
      <<kurz1A, kurz4>>, <<note1, kurz5>> }

Cells == {NaN, <<1>>, <<2>>}

FramesOver(header, n) ==
    {DataFrame(header, data) : data \in [1..n -> [1..Len(header) -> Cells]]}

ScenarioCatalog ==
    DataFrame(<<"CourseID", "name">>,
              << [CourseID |-> 1, name |-> "Algebra"],
                 [CourseID |-> 2, name |-> "Biology"] >>)

ScenarioPreferences ==
    DataFrame(<<kurz1A, kurz2A>>, << <<<<1>>, <<2>>>>, <<<<1>>, <<1>>>>, <<<<2>>, NaN>> >>)

\* the scenario's rows under column names that end in the rank
ScenarioRanked == DataFrame(<<kurz1, kurz2>>, ScenarioPreferences.data)

PreferenceFrames ==
    UNION {FramesOver(h, n) : h \in Headers, n \in 0..MaxRows}
    \cup FramesOver(ScenarioPreferences.columns, Len(ScenarioPreferences.data))
    \cup FramesOver(ScenarioRanked.columns, Len(ScenarioRanked.data))

Catalogs ==
    {DataFrame(<<"CourseID", "name">>, data) :
        data \in { <<>>,
                   <<ScenarioCatalog.data[1]>>,
                   <<ScenarioCatalog.data[2]>>,
                   <<ScenarioCatalog.data[1], ScenarioCatalog.data[2]>>,
                   <<ScenarioCatalog.data[2], ScenarioCatalog.data[1]>> }}

(***************************************************************************)
(* plot_course_popularity                                                  *)
(***************************************************************************)
NoFigure == [type |-> "NoFigure"]

Min(a, b) == IF a < b THEN a ELSE b

\* DataFrame.head(n), n >= 0
head(df, n) ==
    [df EXCEPT !.index = SubSeq(df.index, 1, Min(n, Len(df.data))),
               !.data = SubSeq(df.data, 1, Min(n, Len(df.data)))]

\* DataFrame.tail(n), n >= 0
tail(df, n) ==
    LET len == Len(df.data)
    IN [df EXCEPT !.index = SubSeq(df.index, len - Min(n, len) + 1, len),
                  !.data = SubSeq(df.data, len - Min(n, len) + 1, len)]

\* sns.barplot(x=metric, y='name', data=df): one bar per row, top to bottom
barplot(df, metric) ==
    [i \in 1..Len(df.data) |->
        [y |-> df.data[i].name,
         x |-> [num |-> KeyNum(df.data[i], metric), den |-> KeyDen(df.data[i], metric)]]]

Axes(kind, top_n, metric, bars) ==
    [title |-> <<kind, top_n, "Courses by", metric>>, bars |-> bars]

plot_unchecked(popularity_df_, metric, top_n, tie) ==
    IF empty(popularity_df_)
    THEN [raised |-> "none", figure |-> NoFigure]
    ELSE LET by == IF \E j \in 1..Len(popularity_df_.columns) :
                         popularity_df_.columns[j] = metric
                   THEN metric ELSE "weighted_score"
             sorted_df == sort_values(popularity_df_, by, FALSE, tie)
         IN [raised |-> "none",
             figure |-> [type |-> "Figure",
                         ax1 |-> Axes("Top", top_n, metric,
                                      barplot(head(sorted_df, top_n), by)),
                         ax2 |-> Axes("Bottom", top_n, metric,
                                      barplot(tail(sorted_df, top_n), by))]]

plot_top_twice(popularity_df_, metric, top_n, tie) ==
    IF empty(popularity_df_)
    THEN [raised |-> "none", figure |-> NoFigure]
    ELSE IF ~\E j \in 1..Len(popularity_df_.columns) :
                 popularity_df_.columns[j] = metric
    THEN [raised |-> "KeyError", figure |-> NoFigure]
    ELSE LET sorted_df == sort_values(popularity_df_, metric, FALSE, tie)
         IN [raised |-> "none",
             figure |-> [type |-> "Figure",
                         ax1 |-> Axes("Top", top_n, metric,
                                      barplot(head(sorted_df, top_n), metric)),
                         ax2 |-> Axes("Bottom", top_n, metric,
                                      barplot(head(sorted_df, top_n), metric))]]

plot_course_popularity(popularity_df_, metric, top_n, tie) ==
    IF empty(popularity_df_)
    THEN [raised |-> "none", figure |-> NoFigure]
    ELSE IF ~\E j \in 1..Len(popularity_df_.columns) :
                 popularity_df_.columns[j] = metric
    THEN [raised |-> "KeyError", figure |-> NoFigure]
    ELSE LET sorted_df == sort_values(popularity_df_, metric, FALSE, tie)
             top_courses == head(sorted_df, top_n)
             bottom_courses == tail(sorted_df, top_n)
         IN [raised |-> "none",
             figure |-> [type |-> "Figure",
                         ax1 |-> Axes("Top", top_n, metric,
                                      barplot(top_courses, metric)),
                         ax2 |-> Axes("Bottom", top_n, metric,
                                      barplot(bottom_courses, metric))]]

Metrics == {"weighted_score", "total_mentions", "avg_pref", "pref_2", "popularity"}

(***************************************************************************)
(* save_popularity_data                                                    *)
(*                                                                         *)
(* A path is the sequence of its parts; a file or directory name is a      *)
(* sequence of string fragments.  The file system is the set of            *)
(* directories and the set of files (path and content) below the current   *)
(* directory.                                                              *)
(***************************************************************************)
EmptyFS == [dirs |-> {}, files |-> {}]

\* bool(x) of an argument
truthy(x) ==
    CASE x.type = "NoneType" -> FALSE
      [] x.type = "int" -> x.value # 0
      [] x.type = "str" -> x.chars # <<>>

\* f"{x}"
format(x) ==
    CASE x.type = "int" -> str(x.value)
      [] x.type = "str" -> x.chars

\* Path(s): the string s is given by its parts
Path(s) == [type |-> "Path", parts |-> s.chars]

\* path / name
Join(path, name) == [path EXCEPT !.parts = Append(@, name)]

IsFile(fs_, parts) == \E f \in fs_.files : f.path = parts

\* Path.mkdir(exist_ok=True, parents=True)
mkdir(fs_, path) ==
    IF \E k \in 1..Len(path.parts) : IsFile(fs_, SubSeq(path.parts, 1, k))
    THEN [raised |-> "FileExistsError", fs |-> fs_]
    ELSE [raised |-> "none",
          fs |-> [fs_ EXCEPT !.dirs =
                     @ \cup {SubSeq(path.parts, 1, k) : k \in 1..Len(path.parts)}]]

\* DataFrame.to_csv(filepath)
to_csv(fs_, df, filepath) ==
    [fs_ EXCEPT !.files = {f \in @ : f.path # filepath.parts}
                           \cup {[path |-> filepath.parts, content |-> df]}]

save_unguarded(popularity_df_, year, output_dir, fs_, tie) ==
    LET sorted_df == IF empty(popularity_df_) THEN popularity_df_
                     ELSE sort_values(popularity_df_, "weighted_score", FALSE, tie)
        made == IF truthy(output_dir) THEN mkdir(fs_, Path(output_dir))
                ELSE [raised |-> "none", fs |-> fs_]
        output_path == IF truthy(output_dir) THEN Path(output_dir)
                       ELSE [type |-> "Path", parts |-> <<>>]
        year_suffix == IF truthy(year) THEN <<"_">> \o format(year) ELSE <<>>
        filename == <<"course_popularity_analysis">> \o year_suffix \o <<".csv">>
        filepath == Join(output_path, filename)
    IN IF made.raised # "none"
       THEN [raised |-> made.raised, returned |-> None, fs |-> made.fs]
       ELSE [raised |-> "none", returned |-> None,
             fs |-> to_csv(made.fs, sorted_df, filepath)]

save_popularity_data(popularity_df_, year, output_dir, fs_, tie) ==
    IF empty(popularity_df_)
    THEN [raised |-> "none", returned |-> None, fs |-> fs_]
    ELSE LET sorted_df == sort_values(popularity_df_, "weighted_score", FALSE, tie)
             made == IF truthy(output_dir) THEN mkdir(fs_, Path(output_dir))
                     ELSE [raised |-> "none", fs |-> fs_]
             output_path == IF truthy(output_dir) THEN Path(output_dir)
                            ELSE [type |-> "Path", parts |-> <<>>]
             year_suffix == IF truthy(year) THEN <<"_">> \o format(year) ELSE <<>>
             filename == <<"course_popularity_analysis">> \o year_suffix \o <<".csv">>
             filepath == Join(output_path, filename)
         IN IF made.raised # "none"
            THEN [raised |-> made.raised, returned |-> None, fs |-> made.fs]
            ELSE [raised |-> "none", returned |-> None,
                  fs |-> to_csv(made.fs, sorted_df, filepath)]

Years == {None, PyInt(0), PyInt(2024), PyStr(<<>>)}

out == <<"out">>
sub == <<"sub">>

OutputDirs == {None, PyStr(<<>>), PyStr(<<out>>), PyStr(<<out, sub>>)}

InitialFS ==
    { EmptyFS,
      [dirs |-> {<<out>>}, files |-> {}],
      [dirs |-> {}, files |-> {[path |-> <<out>>, content |-> None]}] }

(***************************************************************************)
(* The analysis pipeline.                                                  *)
(***************************************************************************)
Init ==
    /\ xlsx \in PreferenceFrames \cup {Unreadable}
    /\ courses_df \in Catalogs
    /\ preferences_df = None
    /\ popularity_df = None
    /\ sort_tie = <<>>
    /\ args = None
    /\ raised = "none"
    /\ returned = None
    /\ figure = NoFigure
    /\ fs = EmptyFS
    /\ pc = "start"

LoadStudentPreferences ==
    /\ pc = "start"
    /\ preferences_df' = load_student_preferences(xlsx)
    /\ pc' = "loaded"
    /\ UNCHANGED <<xlsx, courses_df, popularity_df, sort_tie, args, raised,
                   returned, figure, fs>>

AnalyzeCoursePopularity ==
    /\ pc = "loaded"
    /\ \E tie \in Orders(Len(courses_df.data)) :
          LET r == analyze_course_popularity(preferences_df, courses_df, tie)
          IN /\ sort_tie' = tie
             /\ raised' = r.raised
             /\ popularity_df' = r.value
    /\ pc' = "analyzed"
    /\ UNCHANGED <<xlsx, courses_df, preferences_df, args, returned, figure, fs>>

Next == LoadStudentPreferences \/ AnalyzeCoursePopularity

Spec == Init /\ [][Next]_vars

(***************************************************************************)
(* The reporter, called on a popularity table the analysis can return.     *)
(***************************************************************************)
PopularityTables ==
    UNION {{analyze_course_popularity(p, c, tie).value :
               p \in PreferenceFrames, tie \in Orders(Len(c.data))} : c \in Catalogs}

ReportInit ==
    /\ xlsx = Unreadable
    /\ courses_df = None
    /\ preferences_df = None
    /\ popularity_df \in PopularityTables
    /\ sort_tie = <<>>
    /\ args = None
    /\ raised = "none"
    /\ returned = None
    /\ figure = NoFigure
    /\ fs \in InitialFS
    /\ pc = "analyzed"

PlotCoursePopularity ==
    /\ pc = "analyzed"
    /\ \E metric \in Metrics, top_n \in 1..MaxTopN,
          tie \in Orders(Len(popularity_df.data)) :
          LET r == plot_course_popularity(popularity_df, metric, top_n, tie)
          IN /\ args' = [metric |-> metric, top_n |-> top_n]
             /\ sort_tie' = tie
             /\ raised' = r.raised
             /\ figure' = r.figure
    /\ pc' = "plotted"
    /\ UNCHANGED <<xlsx, courses_df, preferences_df, popularity_df, returned, fs>>

SavePopularityData ==
    /\ pc = "analyzed"
    /\ \E year \in Years, output_dir \in OutputDirs,
          tie \in Orders(Len(popularity_df.data)) :
          LET r == save_popularity_data(popularity_df, year, output_dir, fs, tie)
          IN /\ args' = [year |-> year, output_dir |-> output_dir]
             /\ sort_tie' = tie
             /\ raised' = r.raised
             /\ returned' = r.returned
             /\ fs' = r.fs
    /\ pc' = "saved"
    /\ UNCHANGED <<xlsx, courses_df, preferences_df, popularity_df, figure>>

ReportNext == PlotCoursePopularity \/ SavePopularityData

ReportSpec == ReportInit /\ [][ReportNext]_vars

(***************************************************************************)
(* Properties.                                                             *)
(***************************************************************************)
Analyzed == pc = "analyzed" /\ raised = "none"

Rows == popularity_df.data

\* col is a column that counts for rank r: it starts with 'kurz' and its last
\* character is the digit r
CountsFor(col, r) ==
    /\ Len(col) >= 4
    /\ \A k \in 1..4 : col[k] = <<"k", "u", "r", "z">>[k]
    /\ col[Len(col)] = <<"1", "2", "3", "4">>[r]

Ignored(col) == \A r \in 1..4 : ~CountsFor(col, r)

\* the number of cells of df, in the columns that count for rank r, that hold id
Mentions(df, id, r) ==
    Cardinality({c \in (1..Len(df.data)) \X (1..Len(df.columns)) :
                    /\ CountsFor(df.columns[c[2]], r)
                    /\ df.data[c[1]][c[2]] = <<id>>})

Pref(row, r) ==
    CASE r = 1 -> row.pref_1 [] r = 2 -> row.pref_2
      [] r = 3 -> row.pref_3 [] r = 4 -> row.pref_4

CatalogPosition(id) ==
    CHOOSE k \in 1..Len(courses_df.data) : courses_df.data[k].CourseID = id

C2_AbsentPreferences ==
    /\ (pc # "start" /\ xlsx = Unreadable) => preferences_df = None
    /\ (pc = "analyzed" /\ preferences_df = None)
       => raised = "none" /\ popularity_df = EmptyPopularity

\* C3: a save of a non-empty table writes course_popularity_analysis[_<year>].csv
\* under output_dir (or the current directory) and returns that path; the
\* suffix is there exactly when a year is given.
C3_SaveReturnsPath ==
    (pc = "saved" /\ raised = "none" /\ ~empty(popularity_df))
    => LET dir == IF args.output_dir = None THEN <<>> ELSE args.output_dir.chars
           suffix == IF args.year = None THEN <<>>
                     ELSE <<"_">> \o format(args.year)
           file == dir \o << <<"course_popularity_analysis">> \o suffix \o <<".csv">> >>
       IN /\ \E f \in fs.files : f.path = file
          /\ returned = [type |-> "Path", parts |-> file]

C5_StableOrder ==
    Analyzed =>
        \A i, j \in 1..Len(Rows) :
            i < j =>
                \/ Rows[i].weighted_score > Rows[j].weighted_score
                \/ /\ Rows[i].weighted_score = Rows[j].weighted_score
                   /\ CatalogPosition(Rows[i].course_id)
                        < CatalogPosition(Rows[j].course_id)

\* C5 (amended): the table is non-increasing in weighted_score.
C5_NonIncreasing ==
    Analyzed =>
        \A i, j \in 1..Len(Rows) :
            i < j => Rows[i].weighted_score >= Rows[j].weighted_score

C5_Witness ==
    /\ Analyzed
    /\ Len(Rows) = 2
    /\ Rows[1].weighted_score > Rows[2].weighted_score
    /\ CatalogPosition(Rows[1].course_id) > CatalogPosition(Rows[2].course_id)

\* C6: a catalog course is in the output exactly when some rank-1..4 column
\* mentions it; every record has total_mentions >= 1 and a course_id of the
\* catalog.
C6_Inclusion ==
    Analyzed =>
        /\ \A k \in 1..Len(courses_df.data) :
              LET id == courses_df.data[k].CourseID
              IN (\E i \in 1..Len(Rows) : Rows[i].course_id = id)
                 <=> (\E r \in 1..4 : Mentions(preferences_df, id, r) > 0)
        /\ \A i \in 1..Len(Rows) :
              /\ Rows[i].total_mentions >= 1
              /\ \E k \in 1..Len(courses_df.data) :
                    courses_df.data[k].CourseID = Rows[i].course_id

C6_Witness ==
    /\ Analyzed
    /\ Len(courses_df.data) = 2
    /\ Len(Rows) = 1
    /\ \E r \in 1..4 : Mentions(preferences_df, Rows[1].course_id, r) > 0

\* the bars of the rows under the metric, and comparison of bar lengths
BarOf(row, metric) ==
    [y |-> row.name,
     x |-> IF metric = "avg_pref" THEN row.avg_pref
           ELSE [num |-> row[metric], den |-> 1]]

Leq(a, b) == a.num * b.den <= b.num * a.den

Plotted == pc = "plotted" /\ raised = "none" /\ figure # NoFigure

AllBars == {BarOf(Rows[i], args.metric) : i \in 1..Len(Rows)}

Shown(bars) == {bars[i] : i \in 1..Len(bars)}

\* bars are top_n of the rows' bars, one bar per row
PanelOf(bars) ==
    /\ Len(bars) = Min(args.top_n, Len(Rows))
    /\ Shown(bars) \subseteq AllBars
    /\ Cardinality(Shown(bars)) = Len(bars)

\* C7 (as stated): panel 1 shows the top_n records highest first, panel 2 the
\* bottom top_n records lowest first.
C7_BottomAscending ==
    Plotted =>
        LET top == figure.ax1.bars
            bottom == figure.ax2.bars
        IN /\ PanelOf(top) /\ PanelOf(bottom)
           /\ \A i, j \in 1..Len(top) : i < j => Leq(top[j].x, top[i].x)
           /\ \A b \in AllBars \ Shown(top) : \A i \in 1..Len(top) : Leq(b.x, top[i].x)
           /\ \A i, j \in 1..Len(bottom) : i < j => Leq(bottom[i].x, bottom[j].x)
           /\ \A b \in AllBars \ Shown(bottom) :
                 \A i \in 1..Len(bottom) : Leq(bottom[i].x, b.x)

\* C7 (amended): panel 1 shows the top_n records highest first, panel 2 the
\* bottom top_n records highest first (the tail of the descending table).
C7_BottomDescending ==
    Plotted =>
        LET top == figure.ax1.bars
            bottom == figure.ax2.bars
        IN /\ PanelOf(top) /\ PanelOf(bottom)
           /\ \A i, j \in 1..Len(top) : i < j => Leq(top[j].x, top[i].x)
           /\ \A b \in AllBars \ Shown(top) : \A i \in 1..Len(top) : Leq(b.x, top[i].x)
           /\ \A i, j \in 1..Len(bottom) : i < j => Leq(bottom[j].x, bottom[i].x)
           /\ \A b \in AllBars \ Shown(bottom) :
                 \A i \in 1..Len(bottom) : Leq(bottom[i].x, b.x)

C7_Witness ==
    /\ Plotted
    /\ Len(Rows) = 2
    /\ args.top_n = 1
    /\ ~Leq(figure.ax1.bars[1].x, figure.ax2.bars[1].x)

\* C8 (as stated): with any table, a metric that is no attribute of the
\* records ends in an error.
C8_InvalidMetricRaises ==
    (pc = "plotted" /\ \A j \in 1..Len(PopularityColumns) :
                           PopularityColumns[j] # args.metric)
    => raised # "none"

\* C8 (amended): with a non-empty table, a metric that is no attribute of the
\* records ends in an error (KeyError) and nothing is drawn; with an empty
\* table the call returns normally.
C8_InvalidMetricNonEmpty ==
    (pc = "plotted" /\ \A j \in 1..Len(PopularityColumns) :
                           PopularityColumns[j] # args.metric)
    => /\ figure = NoFigure
       /\ ~empty(popularity_df) => raised = "KeyError"
       /\ empty(popularity_df) => raised = "none"

C8_Witness ==
    /\ pc = "plotted"
    /\ args.metric = "popularity"
    /\ ~empty(popularity_df)
    /\ raised = "KeyError"

\* C9: on an empty table save_popularity_data returns None and leaves the
\* file system as it was, and plot_course_popularity draws nothing and
\* raises nothing, whatever the other arguments are.
C9_EmptyTableNoOp ==
    [][(pc = "analyzed" /\ empty(popularity_df))
       => /\ fs' = fs
          /\ returned' = None
          /\ raised' = "none"
          /\ figure' = NoFigure]_vars

C9_Witness ==
    /\ pc = "saved"
    /\ empty(popularity_df)
    /\ args.output_dir = PyStr(<<out, sub>>)
    /\ args.year = PyInt(2024)
    /\ fs = EmptyFS

\* the frames got from df by dropping some of the ignored columns, or by
\* overwriting one cell of an ignored column
DropColumns(df, drop) ==
    LET keep == SelectSeq([j \in 1..Len(df.columns) |-> j], LAMBDA j : j \notin drop)
    IN DataFrame([k \in 1..Len(keep) |-> df.columns[keep[k]]],
                 [i \in 1..Len(df.data) |->
                     [k \in 1..Len(keep) |-> df.data[i][keep[k]]]])

IgnoredPositions(df) == {j \in 1..Len(df.columns) : Ignored(df.columns[j])}

IgnoredVariants(df) ==
    {DropColumns(df, drop) : drop \in SUBSET IgnoredPositions(df)}
    \cup {[df EXCEPT !.data[i][j] = c] :
             i \in 1..Len(df.data), j \in IgnoredPositions(df), c \in Cells}

====
